---- MODULE Spec2Model ----
(***************************************************************************)
(* Model of the uuid crate (src/src/lib.rs): the 16-byte Uuid value, its   *)
(* variant/version inspectors, the mixed-endian transforms, the text       *)
(* codec (to_string / to_urn / from_str) and the v4 generator.             *)
(*                                                                         *)
(* Representation.                                                         *)
(*   - a byte is an integer in 0..255; Bytes ([u8; 16]) is a sequence of   *)
(*     16 bytes, so the code's index i is index i+1 here;                  *)
(*   - a text (&str) is the sequence of its UTF-8 bytes, so Len is the     *)
(*     code's s.len();                                                     *)
(*   - a fixed-width unsigned integer (u8, u16, u32, u64) is the sequence  *)
(*     of its radix-16 digits, most significant first, of length width/4   *)
(*     (u32 and u64 values exceed the 32-bit integers of TLC).              *)
(***************************************************************************)
EXTENDS Integers, Sequences, FiniteSets

VARIABLES uuid, ctor, buf, s, origin, ret

vars == <<uuid, ctor, buf, s, origin, ret>>

\* ret, the last call: its name, "ok", "err" or "panic", and the value returned.
Result(op, status, val) == [op |-> op, status |-> status, val |-> val]

\* ctor, the call that built uuid: its name, its bytes argument, and whether
\* the argument was an input or the value the last call returned ("ret").
Built(op, arg, via) == [op |-> op, arg |-> arg, via |-> via]

UUID_STR_LENGTH == 36
UUID_URN_LENGTH == 45
\* "urn:uuid:"
UUID_URN == <<117, 114, 110, 58, 117, 117, 105, 100, 58>>

\* The largest number of bytes by which a caller's buffer exceeds the
\* length the formatting call requires.
MaxSlack == 1

----------------------------------------------------------------------------
(* Bits of a byte, as bitvec's Msb0 view: index 0 is the most significant. *)

\* The view with index 0 the least significant bit (Lsb0).
bits_lsb0(byte) == [i \in 0..7 |-> (byte \div (2 ^ i)) % 2 = 1]

bits(byte) == [i \in 0..7 |-> (byte \div (2 ^ (7 - i))) % 2 = 1]

\* The byte a Msb0 bit view stands for (the view is the byte's storage).
store(bv) ==
  LET w(i) == IF bv[i] THEN 2 ^ (7 - i) ELSE 0
  IN  w(0) + w(1) + w(2) + w(3) + w(4) + w(5) + w(6) + w(7)

\* bv[..n].set_all(value)
set_all(bv, n, value) == [i \in 0..7 |-> IF i < n THEN value ELSE bv[i]]

\* bv.set(index, value)
set(bv, index, value) == [bv EXCEPT ![index] = value]

----------------------------------------------------------------------------
(* Uuid: constructors, byte export, mixed-endian transforms, inspectors.   *)

nil == [i \in 1..16 |-> 0]

from_bytes(bytes) == bytes

to_bytes(self) == self

\* bytes[lo..hi].reverse(), lo and hi the code's 0-based range bounds
reverse(bytes, lo, hi) ==
  [i \in 1..Len(bytes) |->
     IF lo < i /\ i <= hi THEN bytes[lo + hi + 1 - i] ELSE bytes[i]]

\* The transform without the reversal of [6,8).
from_bytes_me_two_fields(bytes) == reverse(reverse(bytes, 0, 4), 4, 6)

from_bytes_me(bytes) ==
  reverse(reverse(reverse(bytes, 0, 4), 4, 6), 6, 8)

to_bytes_me(self) ==
  reverse(reverse(reverse(to_bytes(self), 0, 4), 4, 6), 6, 8)

is_nil(self) == self = nil

\* The classification that reads two bits only.
variant_two_bits(self) ==
  LET b == bits(self[9])
  IN  CASE b[0] /\ b[1]    -> "Reserved"
        [] b[0] /\ ~b[1]   -> "Rfc4122"
        [] ~b[0]           -> "Ncs"

variant(self) ==
  LET b == bits(self[9])
  IN  CASE b[0] /\ b[1] /\ b[2]    -> "Reserved"
        [] b[0] /\ b[1] /\ ~b[2]   -> "Microsoft"
        [] b[0] /\ ~b[1]           -> "Rfc4122"
        [] ~b[0]                   -> "Ncs"

\* The result is [status, val]: status "panic" stands for the panic! arm.
version(self) ==
  LET b == bits(self[7])
      m == <<b[0], b[1], b[2], b[3]>>
  IN  CASE m = <<FALSE, FALSE, FALSE, FALSE>> -> [status |-> "ok", val |-> "Nil"]
        [] m = <<FALSE, FALSE, FALSE, TRUE>>  -> [status |-> "ok", val |-> "Time"]
        [] m = <<FALSE, FALSE, TRUE, FALSE>>  -> [status |-> "ok", val |-> "Dce"]
        [] m = <<FALSE, FALSE, TRUE, TRUE>>   -> [status |-> "ok", val |-> "Md5"]
        [] m = <<FALSE, TRUE, FALSE, FALSE>>  -> [status |-> "ok", val |-> "Random"]
        [] m = <<FALSE, TRUE, FALSE, TRUE>>   -> [status |-> "ok", val |-> "Sha1"]
        [] OTHER -> [status |-> "panic", val |-> "Invalid version"]

\* The generator that sets the tag bits without clearing the others.
new_v4_no_clear(random) ==
  LET u0 == from_bytes(random)
      u1 == [u0 EXCEPT ![9] = store(set(bits(u0[9]), 0, TRUE))]
  IN  [u1 EXCEPT ![7] = store(set(bits(u1[7]), 1, TRUE))]

\* new_v4 on the 16 bytes rand::random returned.
new_v4(random) ==
  LET u0       == from_bytes(random)
      variant1 == set(set_all(bits(u0[9]), 2, FALSE), 0, TRUE)
      u1       == [u0 EXCEPT ![9] = store(variant1)]
      version1 == set(set_all(bits(u1[7]), 4, FALSE), 1, TRUE)
  IN  [u1 EXCEPT ![7] = store(version1)]

----------------------------------------------------------------------------
(* Fixed-width unsigned integers as radix-16 digit sequences.              *)

\* uN::from_be_bytes(bytes): two digits per byte, most significant first.
from_be_bytes(bytes) ==
  [k \in 1..(2 * Len(bytes)) |->
     IF k % 2 = 1 THEN bytes[(k + 1) \div 2] \div 16 ELSE bytes[k \div 2] % 16]

\* uN::to_le_bytes(n): the bytes least significant first.
to_le_bytes(n) ==
  [i \in 1..(Len(n) \div 2) |->
     16 * n[Len(n) - 2 * i + 1] + n[Len(n) - 2 * i + 2]]

\* uN::to_be_bytes(n)
to_be_bytes(n) ==
  [i \in 1..(Len(n) \div 2) |-> 16 * n[2 * i - 1] + n[2 * i]]

\* The digits "{:x}" prints: no width is given, so the value's digits
\* without leading zeros, and a single 0 for the value zero.
LowerHex(n) ==
  LET nz  == {k \in 1..Len(n) : n[k] # 0}
      fst == IF nz = {} THEN Len(n)
             ELSE CHOOSE k \in nz : \A j \in nz : k <= j
      chr(d) == IF d < 10 THEN 48 + d ELSE 87 + d
  IN  [k \in 1..(Len(n) - fst + 1) |-> chr(n[fst + k - 1])]

----------------------------------------------------------------------------
(* BytesWrapper and formatting.                                            *)

BytesWrapper_new(bytes) == [bytes |-> bytes, offset |-> 0]

into_inner(w) == w.bytes

\* <BytesWrapper as Write>::write_str: [ok, w]
write_str(w, str) ==
  IF (Len(w.bytes) - w.offset) < Len(str)
  THEN [ok |-> FALSE, w |-> w]
  ELSE [ok |-> TRUE,
        w  |-> [bytes  |-> SubSeq(w.bytes, 1, w.offset) \o str
                             \o SubSeq(w.bytes, w.offset + Len(str) + 1,
                                       Len(w.bytes)),
                offset |-> w.offset + Len(str)]]

\* write!(buf, ...): the pieces are written in order by write_str and the
\* first failure ends the formatting.
RECURSIVE write_fmt(_, _)
write_fmt(w, pieces) ==
  IF pieces = <<>> THEN [ok |-> TRUE, w |-> w]
  ELSE LET r == write_str(w, Head(pieces))
       IN  IF r.ok THEN write_fmt(r.w, Tail(pieces)) ELSE r

\* The validation loop of core::str::from_utf8 from index i on: well-formed
\* sequences of one to four bytes.
RECURSIVE run_utf8_validation(_, _)
run_utf8_validation(bytes, i) ==
  LET n       == Len(bytes)
      cont(k) == k <= n /\ 128 <= bytes[k] /\ bytes[k] <= 191
      b       == bytes[i]
  IN  IF i > n THEN TRUE
      ELSE IF b < 128 THEN run_utf8_validation(bytes, i + 1)
      ELSE IF 194 <= b /\ b <= 223 THEN
             cont(i + 1) /\ run_utf8_validation(bytes, i + 2)
      ELSE IF 224 <= b /\ b <= 239 THEN
             /\ cont(i + 1) /\ cont(i + 2)
             /\ (b = 224 => bytes[i + 1] >= 160)
             /\ (b = 237 => bytes[i + 1] <= 159)
             /\ run_utf8_validation(bytes, i + 3)
      ELSE IF 240 <= b /\ b <= 244 THEN
             /\ cont(i + 1) /\ cont(i + 2) /\ cont(i + 3)
             /\ (b = 240 => bytes[i + 1] >= 144)
             /\ (b = 244 => bytes[i + 1] <= 143)
             /\ run_utf8_validation(bytes, i + 4)
      ELSE FALSE

\* core::str::from_utf8(bytes) is Ok
from_utf8_ok(bytes) == run_utf8_validation(bytes, 1)

\* Uuid::to_string(self, buf): [status, buf, str], buf the caller's buffer
\* after the call and str the returned text.
to_string(self, buffer) ==
  IF ~(Len(buffer) >= 36)
  THEN [status |-> "panic", buf |-> buffer, str |-> <<>>]
  ELSE
    LET bytes    == to_bytes(self)
        time_low == from_be_bytes(SubSeq(bytes, 1, 4))
        time_mid == from_be_bytes(SubSeq(bytes, 5, 6))
        time_hi_and_version       == from_be_bytes(SubSeq(bytes, 7, 8))
        clock_seq_hi_and_reserved == from_be_bytes(SubSeq(bytes, 9, 9))
        clock_seq_low             == from_be_bytes(SubSeq(bytes, 10, 10))
        node == from_be_bytes(<<0, 0>> \o SubSeq(bytes, 11, 16))
        r == write_fmt(BytesWrapper_new(buffer),
                       << LowerHex(time_low), <<45>>,
                          LowerHex(time_mid), <<45>>,
                          LowerHex(time_hi_and_version), <<45>>,
                          LowerHex(clock_seq_hi_and_reserved),
                          LowerHex(clock_seq_low), <<45>>,
                          LowerHex(node) >>)
        out == into_inner(r.w)
    IN  IF ~r.ok THEN [status |-> "panic", buf |-> out, str |-> <<>>]
        ELSE IF ~from_utf8_ok(out)
             THEN [status |-> "panic", buf |-> out, str |-> <<>>]
             ELSE [status |-> "ok", buf |-> out, str |-> out]

\* Uuid::to_urn(self, buf)
to_urn(self, buffer) ==
  IF ~(Len(buffer) >= 45)
  THEN [status |-> "panic", buf |-> buffer, str |-> <<>>]
  ELSE
    LET r   == to_string(self, SubSeq(buffer, 10, Len(buffer)))
        \* b"urn:uuid:"
        out == <<117, 114, 110, 58, 117, 117, 105, 100, 58>> \o r.buf
    IN  IF r.status # "ok" THEN [status |-> "panic", buf |-> out, str |-> <<>>]
        ELSE IF ~from_utf8_ok(out)
             THEN [status |-> "panic", buf |-> out, str |-> <<>>]
             ELSE [status |-> "ok", buf |-> out, str |-> out]

----------------------------------------------------------------------------
(* Parsing.                                                                *)

\* str::is_char_boundary(index), which the slicing s[index..] asserts
is_char_boundary(str, index) ==
  \/ index = 0
  \/ index = Len(str)
  \/ index < Len(str) /\ ~(128 <= str[index + 1] /\ str[index + 1] <= 191)

\* s.split('-'): the pieces between the dashes, empty pieces included
RECURSIVE split(_)
split(str) ==
  LET dashes == {i \in 1..Len(str) : str[i] = 45}
  IN  IF dashes = {} THEN <<str>>
      ELSE LET i == CHOOSE k \in dashes : \A j \in dashes : k <= j
           IN  <<SubSeq(str, 1, i - 1)>> \o split(SubSeq(str, i + 1, Len(str)))

\* char::to_digit(16): -1 stands for None
to_digit(c) ==
  IF 48 <= c /\ c <= 57 THEN c - 48
  ELSE IF 97 <= c /\ c <= 102 THEN c - 87
  ELSE IF 65 <= c /\ c <= 70 THEN c - 55
  ELSE -1

\* The digit loop of from_str_radix: result = result * 16 + digit, checked.
RECURSIVE accumulate(_, _)
accumulate(result, digits) ==
  IF digits = <<>> THEN [ok |-> TRUE, val |-> result]
  ELSE LET d == to_digit(Head(digits))
       IN  IF d = -1 THEN [ok |-> FALSE, val |-> result]
           ELSE IF result[1] # 0 THEN [ok |-> FALSE, val |-> result]
           ELSE accumulate(Tail(result) \o <<d>>, Tail(digits))

\* uN::from_str_radix(src, 16) for an unsigned type of `width` radix-16
\* digits: an optional leading '+' followed by at least one digit.
from_str_radix(src, width) ==
  LET zero == [k \in 1..width |-> 0]
      err  == [ok |-> FALSE, val |-> zero]
  IN  IF src = <<>> THEN err
      ELSE IF Len(src) = 1 /\ src[1] \in {43, 45} THEN err
      ELSE IF src[1] = 43 THEN accumulate(zero, Tail(src))
      ELSE accumulate(zero, src)

\* buf[..n].copy_from_slice(src) on raw, where buf is raw[off..]
copy_from_slice(raw, off, src) ==
  SubSeq(raw, 1, off) \o src \o SubSeq(raw, off + Len(src) + 1, Len(raw))

\* The loop of from_str over the groups; off is the number of bytes of raw
\* that buf has been advanced past.  The slice buf[..n] is taken before the
\* group is parsed, so a slice past the end of raw panics first.
RECURSIVE parse_groups(_, _, _)
parse_groups(groups, raw, off) ==
  IF groups = <<>> THEN [status |-> "ok", val |-> from_bytes(raw)]
  ELSE
    LET data  == Head(groups)
        room  == Len(raw) - off
        panic == [status |-> "panic", val |-> raw]
        error == [status |-> "err", val |-> raw]
    IN  CASE Len(data) = 8 ->
               IF room < 4 THEN panic
               ELSE LET r == from_str_radix(data, 8)
                    IN  IF ~r.ok THEN error
                        ELSE parse_groups(Tail(groups),
                               copy_from_slice(raw, off, to_be_bytes(r.val)),
                               off + 4)
          [] Len(data) = 4 ->
               IF room < 2 THEN panic
               ELSE LET r == from_str_radix(data, 4)
                    IN  IF ~r.ok THEN error
                        ELSE parse_groups(Tail(groups),
                               copy_from_slice(raw, off, to_be_bytes(r.val)),
                               off + 2)
          [] Len(data) = 12 ->
               IF room < 6 THEN panic
               ELSE LET r == from_str_radix(data, 16)
                    IN  IF ~r.ok THEN error
                        ELSE parse_groups(Tail(groups),
                               copy_from_slice(raw, off,
                                 SubSeq(to_be_bytes(r.val), 3, 8)),
                               off)
          [] OTHER -> error

\* <Uuid as FromStr>::from_str: [status, val], status "ok" with the
\* Identifier's bytes, "err" for ParseUuidError, "panic" for a panic.
from_str(str) ==
  LET fail(st) == [status |-> st, val |-> nil]
  IN  IF Len(str) = UUID_URN_LENGTH /\ ~is_char_boundary(str, Len(UUID_URN))
      THEN fail("panic")
      ELSE LET s1 == IF Len(str) = UUID_URN_LENGTH
                     THEN SubSeq(str, Len(UUID_URN) + 1, Len(str))
                     ELSE str
           IN  IF Len(s1) # UUID_STR_LENGTH THEN fail("err")
               ELSE LET r == parse_groups(split(s1), [i \in 1..16 |-> 0], 0)
                    IN  IF r.status = "ok" THEN r ELSE fail(r.status)

----------------------------------------------------------------------------
(* Inputs.                                                                 *)

\* tests::RAW
RAW == <<102, 42, 167, 199, 117, 152, 77, 86,
         139, 204, 167, 44, 48, 249, 152, 162>>

Bases == {nil, RAW, [i \in 1..16 |-> 255]}

EdgeBytes == {0, 10, 255}

\* Each base with one byte set to an edge value.
EdgeUuids == {[b EXCEPT ![i] = v] : b \in Bases, i \in 1..16, v \in EdgeBytes}

\* The byte patterns the callers and the randomness source pass: every
\* value of byte 6 and every value of byte 8, and the edge patterns.
Uuids == {[RAW EXCEPT ![i] = v] : i \in {7, 9}, v \in 0..255} \cup EdgeUuids

\* The prior contents of a caller's buffer: NUL bytes or 0xFF.
Fills == {0, 255}

\* The reference text of 16 bytes: two hex digits per byte in order, dashes
\* after bytes 4, 6, 8 and 10; lettercase "lower", "upper" or "mixed".
Hyphenated(b, lettercase) ==
  LET dashes(p) == Cardinality({q \in {9, 14, 19, 24} : q < p})
      up(k)     == lettercase = "upper" \/ (lettercase = "mixed" /\ k % 2 = 1)
      digit(k)  == IF k % 2 = 1 THEN b[(k + 1) \div 2] \div 16
                   ELSE b[k \div 2] % 16
      chr(k)    == IF digit(k) < 10 THEN 48 + digit(k)
                   ELSE IF up(k) THEN 55 + digit(k) ELSE 87 + digit(k)
  IN  [p \in 1..36 |-> IF p \in {9, 14, 19, 24} THEN 45 ELSE chr(p - dashes(p))]

Canonical(b) == Hyphenated(b, "lower")

Urn(b) == UUID_URN \o Canonical(b)

\* 0a bc de f0 ab cd ef 01 23 45 67 89 fa ce b0 0d
Letters == <<10, 188, 222, 240, 171, 205, 239, 1,
             35, 69, 103, 137, 250, 206, 176, 13>>

ParseBytes == {nil, RAW, Letters, [i \in 1..16 |-> 255]}

Conforming ==
  {Hyphenated(b, c) : b \in ParseBytes, c \in {"lower", "upper", "mixed"}}

\* '+', 'g', ' ', '-', ':', '0'
OddChars == {43, 103, 32, 45, 58, 48}

Seeds == {Canonical(RAW), Urn(RAW)}

\* One character of a seed replaced.
Replaced ==
  UNION {{[t EXCEPT ![i] = c] : i \in 1..Len(t), c \in OddChars} : t \in Seeds}

\* Two bytes of a seed replaced by the two-byte character U+00E9.
TwoByte ==
  {[i \in 1..Len(t) |-> IF i = k THEN 195 ELSE IF i = k + 1 THEN 169 ELSE t[i]] :
     t \in Seeds, k \in {1, 8, 9, 10, 20, 35}}

\* The 32 digits of RAW cut into five dash-separated groups of other lengths.
GroupLens ==
  {a \in [1..5 -> {4, 7, 8, 12, 13}] : a[1] + a[2] + a[3] + a[4] + a[5] = 32}

Regrouped(a) ==
  LET d    == SelectSeq(Canonical(RAW), LAMBDA c : c # 45)
      e(k) == IF k = 0 THEN 0
              ELSE IF k = 1 THEN a[1]
              ELSE IF k = 2 THEN a[1] + a[2]
              ELSE IF k = 3 THEN a[1] + a[2] + a[3]
              ELSE IF k = 4 THEN a[1] + a[2] + a[3] + a[4]
              ELSE 32
      g(k) == SubSeq(d, e(k - 1) + 1, e(k))
  IN  g(1) \o <<45>> \o g(2) \o <<45>> \o g(3) \o <<45>> \o g(4) \o <<45>> \o g(5)

\* Texts of other lengths: empty, "not-a-uuid", one short, one long.
OtherLengths ==
  { <<>>,
    <<110, 111, 116, 45, 97, 45, 117, 117, 105, 100>>,
    SubSeq(Canonical(RAW), 1, 35),
    Canonical(RAW) \o <<48>>,
    SubSeq(Urn(RAW), 1, 44),
    Urn(RAW) \o <<48>> }

\* 45-byte texts: a conforming form after nine other characters.
Prefixed ==
  {p \o Canonical(RAW) :
     p \in { <<85, 82, 78, 58, 85, 85, 73, 68, 58>>,
             <<120, 120, 120, 120, 120, 120, 120, 120, 120>>,
             <<48, 48, 48, 48, 48, 48, 48, 48, 45>> }}

Texts ==
  Conforming \cup {UUID_URN \o t : t \in Conforming} \cup Replaced \cup TwoByte
    \cup {Regrouped(a) : a \in GroupLens} \cup OtherLengths \cup Prefixed

----------------------------------------------------------------------------
(* The state machine: a caller holding an Identifier (uuid, built by ctor), *)
(* a buffer (buf), a text (s, whose origin is an input or a formatting     *)
(* call) and the result of its last call (ret).  A panic ends the run.     *)

Alive == ret.status # "panic"

Fresh == ret.op = "none"

Init ==
  /\ uuid = nil
  /\ ctor = Built("nil", nil, "input")
  /\ buf = <<>>
  /\ s = <<>>
  /\ origin = "none"
  /\ ret = Result("none", "ok", <<>>)

\* The caller receives a text to parse.
Input ==
  /\ Fresh
  /\ \E t \in Texts :
       /\ s' = t
       /\ origin' = "input"
       /\ ret' = Result("input", "ok", t)
  /\ UNCHANGED <<uuid, ctor, buf>>

\* A constructor: a case starts with one constructor call or one input text.
Construct(op, arg, via, value) ==
  /\ Alive
  /\ uuid' = value
  /\ ctor' = Built(op, arg, via)
  /\ buf' = <<>>
  /\ s' = <<>>
  /\ origin' = "none"
  /\ ret' = Result(op, "ok", value)

Nil == Fresh /\ Construct("nil", nil, "input", nil)

FromBytes ==
  /\ Fresh
  /\ \E b \in Uuids : Construct("from_bytes", b, "input", from_bytes(b))

\* The bytes are an input or the bytes the last to_bytes_me returned.
FromBytesMe ==
  \/ /\ Fresh
     /\ \E b \in EdgeUuids :
          Construct("from_bytes_me", b, "input", from_bytes_me(b))
  \/ /\ ret.op = "to_bytes_me"
     /\ Construct("from_bytes_me", ret.val, "ret", from_bytes_me(ret.val))

NewV4 ==
  /\ Fresh
  /\ \E random \in Uuids : Construct("new_v4", random, "input", new_v4(random))

\* A call on the Identifier that returns a value and changes nothing else.
Query(op, r) ==
  /\ Alive
  /\ ret' = Result(op, r.status, r.val)
  /\ UNCHANGED <<uuid, ctor, buf, s, origin>>

Ok(val) == [status |-> "ok", val |-> val]

ToBytes == Query("to_bytes", Ok(to_bytes(uuid)))

ToBytesMe == Query("to_bytes_me", Ok(to_bytes_me(uuid)))

IsNil == Query("is_nil", Ok(is_nil(uuid)))

Variant == Query("variant", Ok(variant(uuid)))

Version == Query("version", version(uuid))

\* A formatting call; a case formats its Identifier once.
CanFormat == Alive /\ origin = "none"

Format(op, r) ==
  /\ buf' = r.buf
  /\ s' = r.str
  /\ origin' = IF r.status = "ok" THEN op ELSE "none"
  /\ ret' = Result(op, r.status, r.str)
  /\ UNCHANGED <<uuid, ctor>>

\* The caller's buffer has n bytes, each holding fill.
ToString ==
  /\ CanFormat
  /\ \E n \in (UUID_STR_LENGTH - 1)..(UUID_STR_LENGTH + MaxSlack), fill \in Fills :
       Format("to_string", to_string(uuid, [i \in 1..n |-> fill]))

ToUrn ==
  /\ CanFormat
  /\ \E n \in (UUID_URN_LENGTH - 1)..(UUID_URN_LENGTH + MaxSlack), fill \in Fills :
       Format("to_urn", to_urn(uuid, [i \in 1..n |-> fill]))

\* Uuid::from_str on the text in hand.
FromStr ==
  /\ origin # "none"
  /\ Query("from_str", from_str(s))

Next ==
  \/ Input
  \/ Nil
  \/ FromBytes
  \/ FromBytesMe
  \/ NewV4
  \/ ToBytes
  \/ ToBytesMe
  \/ IsNil
  \/ Variant
  \/ Version
  \/ ToString
  \/ ToUrn
  \/ FromStr

Spec == Init /\ [][Next]_vars

----------------------------------------------------------------------------
(* Properties.                                                             *)

IsHex(c) == (48 <= c /\ c <= 57) \/ (97 <= c /\ c <= 102) \/ (65 <= c /\ c <= 70)

\* The value of a hex digit character, either lettercase.
HexValue(c) ==
  CHOOSE d \in 0..15 :
    \/ d < 10 /\ c = 48 + d
    \/ d >= 10 /\ c \in {87 + d, 55 + d}

\* A text of the form 8-4-4-4-12 whose other characters are hex digits.
IsConforming(t) ==
  /\ Len(t) = 36
  /\ \A p \in 1..36 : IF p \in {9, 14, 19, 24} THEN t[p] = 45 ELSE IsHex(t[p])

\* A text without its literal "urn:uuid:" prefix, when it has one.
WithoutUrn(t) ==
  IF Len(t) = 45 /\ SubSeq(t, 1, 9) = UUID_URN THEN SubSeq(t, 10, 45) ELSE t

\* The 16 bytes a conforming text spells: byte i is digits 2i and 2i+1 of
\* the text with its dashes removed.
BytesOfText(t) ==
  LET d == SelectSeq(t, LAMBDA c : c # 45)
  IN  [i \in 1..16 |-> 16 * HexValue(d[2 * i - 1]) + HexValue(d[2 * i])]

\* The text from_str splits: the input past its first 9 bytes when its
\* length is 45.
AfterPrefix(t) == IF Len(t) = 45 THEN SubSeq(t, 10, 45) ELSE t

\* C1: parsing the text that to_string or to_urn returned for an Identifier
\* succeeds and yields the bytes of that Identifier.
TextRoundTrip ==
  (ret.op = "from_str" /\ origin \in {"to_string", "to_urn"})
    => (ret.status = "ok" /\ ret.val = uuid)

\* C2: to_string into a buffer of at least 36 bytes returns exactly the 36
\* characters of the zero-padded lowercase 8-4-4-4-12 form, and to_urn into
\* a buffer of at least 45 bytes returns exactly "urn:uuid:" and that form.
FormatsFixedWidth ==
  /\ (ret.op = "to_string" /\ Len(buf) >= 36)
       => (ret.status = "ok" /\ ret.val = Canonical(uuid))
  /\ (ret.op = "to_urn" /\ Len(buf) >= 45)
       => (ret.status = "ok" /\ ret.val = Urn(uuid))

\* C3: from_str of a conforming 8-4-4-4-12 hex text, bare or after the
\* "urn:uuid:" prefix and in either lettercase, succeeds with the bytes the
\* 32 digits spell from left to right.
ParsesConforming ==
  (ret.op = "from_str" /\ IsConforming(WithoutUrn(s)))
    => (ret.status = "ok" /\ ret.val = BytesOfText(WithoutUrn(s)))

ParsesConformingWitness ==
  /\ ret.op = "from_str"
  /\ ret.status = "ok"
  /\ s = UUID_URN \o Hyphenated(Letters, "mixed")
  /\ ret.val = Letters

\* C4: from_str of a text that has, past the stripped prefix, a character
\* that is neither a dash nor a hex digit returns the parse error.
RejectsNonHex ==
  (/\ ret.op = "from_str"
   /\ \E i \in 1..Len(AfterPrefix(s)) :
        AfterPrefix(s)[i] # 45 /\ ~IsHex(AfterPrefix(s)[i]))
    => ret.status = "err"

\* C5: from_str returns an Identifier or the parse error for every text and
\* never panics, and it accepts no group of a length other than 8, 4 or 12.
ParseNeverFaults ==
  ret.op = "from_str"
    => /\ ret.status \in {"ok", "err"}
       /\ ret.status = "ok"
            => \A k \in 1..Len(split(AfterPrefix(s))) :
                 Len(split(AfterPrefix(s))[k]) \in {4, 8, 12}

\* C6: the Identifier new_v4 returns has 0100 in the top 4 bits of byte 6
\* and 10 in the top 2 bits of byte 8, whatever the random bytes; version
\* on it returns Random without a panic and variant returns Rfc4122.
GeneratorInvariants ==
  ctor.op = "new_v4"
    => /\ uuid[7] \div 16 = 4
       /\ uuid[9] \div 64 = 2
       /\ \A i \in (1..16) \ {7, 9} : uuid[i] = ctor.arg[i]
       /\ ret.op = "version" => (ret.status = "ok" /\ ret.val = "Random")
       /\ ret.op = "variant" => (ret.status = "ok" /\ ret.val = "Rfc4122")

GeneratorWitness ==
  /\ ctor.op = "new_v4"
  /\ ctor.arg = [i \in 1..16 |-> 255]
  /\ ret.op = "version"
  /\ ret.val = "Random"

\* The index table of the mixed-endian layout: [0,4), [4,6) and [6,8)
\* reversed, 8..15 in place.
MePerm == <<4, 3, 2, 1, 6, 5, 8, 7, 9, 10, 11, 12, 13, 14, 15, 16>>

MixedEndianLayout ==
  /\ ret.op = "to_bytes_me" => \A i \in 1..16 : ret.val[i] = uuid[MePerm[i]]
  /\ ctor.op = "from_bytes_me" => \A i \in 1..16 : uuid[i] = ctor.arg[MePerm[i]]
  /\ (ctor.op = "from_bytes_me" /\ ret.op = "to_bytes_me") => ret.val = ctor.arg

MixedEndianBack ==
  (ret.op = "to_bytes_me" /\ ctor'.op = "from_bytes_me" /\ ctor'.via = "ret")
    => /\ uuid' = uuid
       /\ version(uuid') = version(uuid)
       /\ variant(uuid') = variant(uuid)

\* C7: to_bytes_me and from_bytes_me each reverse exactly the byte ranges
\* [0,4), [4,6), [6,8) and keep bytes 8..15; to_bytes_me of from_bytes_me(b)
\* is b, and from_bytes_me of the bytes to_bytes_me returned is the same
\* Identifier, with the same version and variant.
MixedEndianRoundTrip == []MixedEndianLayout /\ [][MixedEndianBack]_vars

MixedEndianWitness ==
  /\ ctor.op = "from_bytes_me"
  /\ ctor.via = "ret"
  /\ uuid = RAW
  /\ ctor.arg # RAW

\* C8: version is decided by the top 4 bits of byte 6 alone: 0 Nil, 1 Time,
\* 2 Dce, 3 Md5, 4 Random, 5 Sha1, and a panic for each of 6..15.
VersionTable ==
  ret.op = "version"
    => LET n == uuid[7] \div 16
       IN  IF n <= 5
           THEN /\ ret.status = "ok"
                /\ ret.val = <<"Nil", "Time", "Dce", "Md5", "Random", "Sha1">>[n + 1]
           ELSE ret.status = "panic"

VersionWitness ==
  /\ ret.op = "version"
  /\ ret.status = "panic"
  /\ uuid[7] \div 16 = 6

\* C9: variant returns, without a panic, the one variant the top bits of
\* byte 8 select: 111 Reserved, 110 Microsoft, 10x Rfc4122, 0xx Ncs.
VariantTotal ==
  ret.op = "variant"
    => /\ ret.status = "ok"
       /\ ret.val = IF uuid[9] >= 224 THEN "Reserved"
                    ELSE IF uuid[9] >= 192 THEN "Microsoft"
                    ELSE IF uuid[9] >= 128 THEN "Rfc4122"
                    ELSE "Ncs"

VariantWitness ==
  /\ ret.op = "variant"
  /\ uuid[9] = 223
  /\ ret.val = "Microsoft"

\* C10: from_str of a 45-byte text returns an Identifier only if the first
\* 9 characters are the literal "urn:uuid:".
UrnPrefixChecked ==
  (ret.op = "from_str" /\ Len(s) = 45 /\ ret.status = "ok")
    => SubSeq(s, 1, 9) = UUID_URN

====
